---------------------------- MODULE Spec2Model ----------------------------
(***************************************************************************)
(* Self-Exciting Threshold Autoregression (statsmodels/tsa/setar_model.py) *)
(*                                                                         *)
(* The model covers class SETAR: construction, build_datasets, fit and     *)
(* the hyperparameter search (select_hyperparameters and its grid search). *)
(* Observations are small integers.  An ndarray is a sequence, a raised    *)
(* exception is a record whose field exc names the exception class.        *)
(***************************************************************************)
EXTENDS Integers, Sequences, FiniteSets, TLC

(***************************************************************************)
(* Bounds of the model.                                                    *)
(***************************************************************************)
MaxVal == 2         \* observations of the partition inputs range over 0..MaxVal
SeriesLen == 5      \* length of the series of the partition inputs
MaxObj == 1         \* objective values range over 0..MaxObj
MaxFits == 2        \* calls of fit() on one model
MaxDirect == 1      \* direct calls of select_hyperparameters() on one model
MaxOrder == 4       \* number of regimes of a model

(***************************************************************************)
(* Program constants.                                                      *)
(***************************************************************************)
maxiter == 100

\* Python's None, as a number below every observation
None == -99

\* Exceptions.  NoExc marks a normal return.
NoExc == "none"
InvalidRegimeError == "InvalidRegimeError"
ValueError == "ValueError"
TypeError == "TypeError"
AxisError == "AxisError"
LinAlgError == "LinAlgError"

(***************************************************************************)
(* Python and numpy primitives.                                            *)
(***************************************************************************)
Max(a, b) == IF a >= b THEN a ELSE b

\* math.ceil(num/den * n) for a fraction num/den and an integer n >= 0
\* (the fractions used are dyadic, so the float product is exact)
ceil_frac(frac, n) == (frac[1] * n + frac[2] - 1) \div frac[2]

\* s[a:b] on a sequence, with Python's negative and clipped indices
py_slice(s, a, b) ==
    LET n  == Len(s)
        lo == IF a < 0 THEN Max(n + a, 0) ELSE IF a > n THEN n ELSE a
        hi == IF b < 0 THEN Max(n + b, 0) ELSE IF b > n THEN n ELSE b
    IN  IF hi <= lo THEN << >> ELSE [i \in 1..(hi - lo) |-> s[lo + i]]

\* x < y as the sort sees it; None sorts below every number (Python 2)
lt(x, y) ==
    IF x = None THEN y # None
    ELSE IF y = None THEN FALSE
    ELSE x < y

\* insertion of x into the sorted sequence s
RECURSIVE insert_sorted(_, _)
insert_sorted(s, x) ==
    IF s = << >> THEN << x >>
    ELSE IF lt(x, Head(s)) THEN << x >> \o s
    ELSE << Head(s) >> \o insert_sorted(Tail(s), x)

\* numpy.sort on a 1-d array
RECURSIVE np_sort(_)
np_sort(s) ==
    IF s = << >> THEN << >>
    ELSE insert_sorted(np_sort(Tail(s)), Head(s))

\* numpy.searchsorted(a, v) (side='left') for one value v: the number of
\* entries of the sorted array a that are strictly below v
searchsorted(a, v) == Cardinality({j \in 1..Len(a) : lt(a[j], v)})

\* the least element of a set of numbers
least(S) == CHOOSE v \in S : \A w \in S : v <= w

\* the elements of a set of numbers, ascending
RECURSIVE ascending(_)
ascending(S) ==
    IF S = {} THEN << >> ELSE <<least(S)>> \o ascending(S \ {least(S)})

\* numpy.unique(numpy.sort(s)): the distinct values, ascending
np_unique(s) == ascending({s[i] : i \in 1..Len(s)})

\* a[indices] for an array of 0-based indices
RECURSIVE take(_, _)
take(a, indices) ==
    IF indices = << >> THEN << >>
    ELSE <<a[Head(indices) + 1]>> \o take(a, Tail(indices))

(***************************************************************************)
(* SETAR.__init__: the derived, immutable properties.                      *)
(***************************************************************************)
\* self.nobs = len(self.endog) - ar_order
nobs(endog, ar_order) == Len(endog) - ar_order

\* self.min_regime_num = np.ceil(min_regime_frac * self.nobs)
min_regime_num(endog, ar_order, min_regime_frac) ==
    ceil_frac(min_regime_frac, nobs(endog, ar_order))

\* row r (0-based) of self.exog[self.nobs_initial:]: the constant and the
\* ar_order lags of observation nobs_initial + r
exog_row(endog, ar_order, r) ==
    [c \in 1..(ar_order + 1) |->
        IF c = 1 THEN 1 ELSE endog[(ar_order + r) - (c - 1) + 1]]

zero_row(ar_order) == [c \in 1..(ar_order + 1) |-> 0]

(***************************************************************************)
(* SETAR.build_datasets                                                    *)
(***************************************************************************)
\* threshold_var = self.endog[self.nobs_initial-delay:-delay, ]
threshold_var(endog, ar_order, delay) ==
    py_slice(endog, ar_order - delay, 0 - delay)

\* in_regime.sum() < self.min_regime_num
too_few_mut(count, mrn) == count <= mrn
too_few(count, mrn) == count < mrn

\* in_regime = (indicators == i), as used for the mask of the exog block
in_regime_mut(indicator, i) == indicator <= i
in_regime(indicator, i) == indicator = i

\* m is the model's immutable part: endog, ar_order, min_regime_frac.
\* The result is the exception raised, or (endog, exog) with the indicators.
build_datasets(m, delay, thresholds, order) ==
    LET failed(e, i) == [exc |-> e, regime |-> i, indicators |-> << >>,
                         endog |-> << >>, exog |-> << >>]
    IN
    IF delay = None THEN failed(TypeError, -1)       \* nobs_initial - None
    ELSE
    LET tv   == threshold_var(m.endog, m.ar_order, delay)
        n    == Len(tv)
        ind  == [r \in 1..n |-> searchsorted(thresholds, tv[r])]
        mrn  == min_regime_num(m.endog, m.ar_order, m.min_regime_frac)
        cnt(i) == Cardinality({r \in 1..n : in_regime(ind[r], i)})
        bad  == {i \in 0..(order - 1) : too_few(cnt(i), mrn)}
    IN  IF bad # {}
        THEN failed(InvalidRegimeError, CHOOSE i \in bad : \A j \in bad : i <= j)
        ELSE [exc |-> NoExc, regime |-> -1, indicators |-> ind,
              endog |-> py_slice(m.endog, m.ar_order, Len(m.endog)),
              exog |-> [r \in 1..n |-> [i \in 1..order |->
                          IF in_regime(ind[r], i - 1)
                          THEN exog_row(m.endog, m.ar_order, r - 1)
                          ELSE zero_row(m.ar_order)]]]

(***************************************************************************)
(* SETAR.__init__                                                          *)
(*                                                                         *)
(* a holds the arguments: endog, order, ar_order, delay (None when left    *)
(* out), thresholds with has_thresholds (FALSE when left out),             *)
(* min_regime_frac as <<numerator, denominator>>, max_delay (None when     *)
(* left out) and threshold_grid_size.                                      *)
(*                                                                         *)
(* legacy tells the interpreter apart.  TRUE: Python 2 with the numpy of   *)
(* the code's time, where None orders below every number and np.sort of a  *)
(* 0-d array is a no-op.  FALSE: Python 3, where ordering None against a   *)
(* number raises TypeError and np.sort of a 0-d array raises AxisError.    *)
(***************************************************************************)
\* x > y where x may be None
gt_exc(legacy, x) == IF x = None /\ ~legacy THEN TypeError ELSE NoExc
gt(x, y) == IF x = None THEN FALSE ELSE x > y

\* if delay is not None and delay < 1 or delay > ar_order
delay_check(legacy, delay, ar_order) ==
    IF delay # None /\ delay < 1 THEN ValueError
    ELSE IF gt_exc(legacy, delay) # NoExc THEN gt_exc(legacy, delay)
    ELSE IF gt(delay, ar_order) THEN ValueError
    ELSE NoExc

\* if delay is None and max_delay > ar_order
max_delay_check(legacy, delay, max_delay, ar_order) ==
    IF delay # None THEN NoExc
    ELSE IF gt_exc(legacy, max_delay) # NoExc THEN gt_exc(legacy, max_delay)
    ELSE IF gt(max_delay, ar_order) THEN ValueError
    ELSE NoExc

\* if thresholds is not None and not len(thresholds)+1 == order
thresholds_check(has_thresholds, thresholds, order) ==
    IF has_thresholds /\ ~(Len(thresholds) + 1 = order) THEN ValueError
    ELSE NoExc

\* self.thresholds = np.sort(thresholds)
sort_argument_exc(legacy, has_thresholds) ==
    IF ~has_thresholds /\ ~legacy THEN AxisError ELSE NoExc

NoModel(e) ==
    [exc |-> e, legacy |-> FALSE, endog |-> << >>, order |-> 0, ar_order |-> 0,
     min_regime_frac |-> <<0, 1>>, max_delay |-> 0, threshold_grid_size |-> 0,
     delay |-> None, thresholds |-> << >>, thresholds_0d |-> FALSE]

SETAR_init(legacy, a) ==
    LET e1 == delay_check(legacy, a.delay, a.ar_order)
        e2 == max_delay_check(legacy, a.delay, a.max_delay, a.ar_order)
        e3 == thresholds_check(a.has_thresholds, a.thresholds, a.order)
        e4 == sort_argument_exc(legacy, a.has_thresholds)
    IN  IF e1 # NoExc THEN NoModel(e1)
        ELSE IF e2 # NoExc THEN NoModel(e2)
        ELSE IF e3 # NoExc THEN NoModel(e3)
        ELSE IF e4 # NoExc THEN NoModel(e4)
        ELSE [exc |-> NoExc, legacy |-> legacy, endog |-> a.endog,
              order |-> a.order, ar_order |-> a.ar_order,
              min_regime_frac |-> a.min_regime_frac,
              max_delay |-> IF a.max_delay # None THEN a.max_delay
                            ELSE a.ar_order,
              threshold_grid_size |-> a.threshold_grid_size,
              delay |-> a.delay,
              thresholds |-> IF a.has_thresholds THEN np_sort(a.thresholds)
                             ELSE << >>,
              \* np.sort(None) is a 0-d array holding None: not None itself
              thresholds_0d |-> ~a.has_thresholds]

(***************************************************************************)
(* SETAR._grid_search_objective                                            *)
(*                                                                         *)
(* The value of the quadratic form resids' X1 Mn X1' resids is floating    *)
(* point linear algebra and is left uninterpreted: the actions range over  *)
(* every assignment of a value to the candidates that reach line 165.      *)
(* What the model computes is what happens before: the exception of        *)
(* build_datasets, and the inversion.                                      *)
(*                                                                         *)
(* The matrix X1'X1 - X1'X (X'X)^-1 X'X1 is singular exactly when the rows *)
(* of some regime do not span all k = ar_order + 1 columns.  np.linalg.inv *)
(* raises LinAlgError when it meets a pivot that is exactly zero.  A       *)
(* column of X1 that is zero in every row makes a row and a column of the  *)
(* matrix exactly zero, and the inversion raises whatever the rounding.    *)
(* Any other singular matrix is computed with rounding errors: the         *)
(* inversion then raises or returns some number, and the model allows both *)
(* (the result's field ill, and may_raise in the actions).                 *)
(*                                                                         *)
(* A search evaluates the same candidates again and again.  The outcome of *)
(* lines 150-162 at a candidate depends on the candidate only, so the      *)
(* actions compute it once for every candidate a step can reach (prepared) *)
(* and the loops read it off a table num, which also holds the threshold   *)
(* grid of each delay (lines 179-185, a function of the delay only):       *)
(*   num.grid     the threshold grid of each delay of the step             *)
(*   num.invalid  the candidates at which build_datasets raises            *)
(*   num.zero     those at which the inversion meets a zero row            *)
(*   num.ill      those whose matrix is singular otherwise                 *)
(*   num.value    the value returned at each of the others                 *)
(***************************************************************************)
\* the matrix M (a sequence of rows) without its first row and its column j
minor(M, j) ==
    [r \in 1..(Len(M) - 1) |->
        [c \in 1..(Len(M) - 1) |-> M[r + 1][IF c < j THEN c ELSE c + 1]]]

\* the determinant, expanded along the first row
RECURSIVE det(_)
RECURSIVE laplace(_, _)
det(M) == IF Len(M) = 0 THEN 1 ELSE laplace(M, 1)

laplace(M, j) ==
    IF j > Len(M) THEN 0
    ELSE (IF M[1][j] = 0 THEN 0
          ELSE (IF j % 2 = 1 THEN 1 ELSE -1) * M[1][j] * det(minor(M, j)))
         + laplace(M, j + 1)

\* the rows R span all k columns: some k of them are independent
full_rank(R, k) == \E pick \in [1..k -> R] : det(pick) # 0

\* the rows of some regime block of exog do not span the block's k columns
singular(exog, order, k) ==
    \E i \in 1..order : ~full_rank({exog[r][i] : r \in 1..Len(exog)}, k)

\* a column of X1 = exog[:, :-k] holds only zeros
zero_column(exog, order, k) ==
    \E i \in 1..(order - 1) : \E c \in 1..k :
        \A r \in 1..Len(exog) : exog[r][i][c] = 0

\* np.linalg.inv(X1X1 - XX1.T.dot(XX).dot(XX1)) raises, for the datasets b
inv_exc(b, order, k) ==
    IF zero_column(b.exog, order, k) THEN LinAlgError ELSE NoExc

\* lines 150-162 once build_datasets has returned or raised b
inverted(b, order, k) ==
    IF b.exc # NoExc THEN [exc |-> b.exc, ill |-> FALSE]
    ELSE IF inv_exc(b, order, k) # NoExc
    THEN [exc |-> inv_exc(b, order, k), ill |-> FALSE]
    ELSE [exc |-> NoExc, ill |-> singular(b.exog, order, k)]

\* lines 150-162 at the candidate <<delay, thresholds>>
prepare(m, delay, thresholds) ==
    inverted(build_datasets(m, delay, thresholds, Len(thresholds) + 1),
             Len(thresholds) + 1, m.ar_order + 1)

\* prepare at every candidate of a set, as pairs <<candidate, outcome>>
prepared(m, keys) == {<<key, prepare(m, key[1], key[2])>> : key \in keys}

\* the candidates of cls at which _grid_search_objective returns a value
valued(cls) == {p[1] : p \in {q \in cls : q[2].exc = NoExc}}

\* the table of the candidates cls with the threshold grids grid, before
\* any value is known
table(cls, grid) ==
    [value |-> << >>,
     grid |-> grid,
     invalid |-> {p[1] : p \in {q \in cls : q[2].exc = InvalidRegimeError}},
     zero |-> {p[1] : p \in {q \in cls : q[2].exc = LinAlgError}},
     ill |-> {p[1] : p \in {q \in cls : q[2].ill}}]

\* _grid_search_objective(delay, thresholds, XX, resids): what it raises,
\* or the value it returns and whether the matrix it inverted is singular
grid_search_objective(delay, thresholds, num) ==
    IF <<delay, thresholds>> \in num.invalid
    THEN [exc |-> InvalidRegimeError, value |-> 0, ill |-> FALSE]
    ELSE IF <<delay, thresholds>> \in num.zero
    THEN [exc |-> LinAlgError, value |-> 0, ill |-> FALSE]
    ELSE [exc |-> NoExc, value |-> num.value[<<delay, thresholds>>],
          ill |-> <<delay, thresholds>> \in num.ill]

(***************************************************************************)
(* SETAR._select_hyperparameters_grid                                      *)
(***************************************************************************)
\* np.arange(start, stop, step, dtype=int)
arange(start, stop, step) ==
    IF stop <= start THEN << >>
    ELSE [j \in 1..((stop - start + step - 1) \div step) |->
            start + (j - 1) * step]

\* the threshold grid of one delay
threshold_grid(m, delay) ==
    LET tv  == np_unique(py_slice(m.endog, 0, 0 - delay))
        n   == Len(tv)
        mrn == min_regime_num(m.endog, m.ar_order, m.min_regime_frac)
        indices == arange(mrn, n - mrn,
                          Max(n \div m.threshold_grid_size, 1))
    IN  take(tv, indices)

\* range(2, self.max_delay+1)
default_delay_grid(m) ==
    IF m.max_delay < 2 THEN << >>
    ELSE [j \in 1..(m.max_delay - 1) |-> j + 1]

\* the threshold grid of every delay of delay_grid, by delay
RECURSIVE threshold_grids(_, _, _)
threshold_grids(m, delay_grid, d) ==
    IF d > Len(delay_grid) \/ delay_grid[d] = None THEN << >>
    ELSE (delay_grid[d] :> threshold_grid(m, delay_grid[d]))
         @@ threshold_grids(m, delay_grid, d + 1)

\* the (delay, threshold) pairs in the order the two loops visit them
RECURSIVE candidates(_, _, _)
candidates(grid, delay_grid, d) ==
    IF d > Len(delay_grid) THEN << >>
    ELSE [j \in 1..Len(grid[delay_grid[d]]) |->
             <<delay_grid[d], grid[delay_grid[d]][j]>>]
         \o candidates(grid, delay_grid, d + 1)

\* except InvalidRegimeError: pass
absorbed(exc) == exc = InvalidRegimeError

\* if obj > max_obj
improves(obj, max_obj) == obj > max_obj

\* np.sort([threshold] + thresholds) raises where None meets a number
sort_exc(legacy, s) ==
    IF ~legacy /\ Len(s) >= 2 /\ \E j \in 1..Len(s) : s[j] = None
    THEN TypeError ELSE NoExc

\* the two loops from candidate c on; best holds params and max_obj, and
\* ill: a singular matrix has been inverted
RECURSIVE grid_loop(_, _, _, _, _, _)
RECURSIVE grid_body(_, _, _, _, _, _, _, _)
grid_loop(m, thresholds, cands, c, best, num) ==
    IF c > Len(cands)
    THEN [exc |-> NoExc, params |-> best.params, max_obj |-> best.max_obj,
          ill |-> best.ill]
    ELSE grid_body(m, thresholds, cands, c, best, num,
                   sort_exc(m.legacy, <<cands[c][2]>> \o thresholds),
                   grid_search_objective(
                       cands[c][1],
                       np_sort(<<cands[c][2]>> \o thresholds), num))

\* the loop body for candidate c: e is what np.sort raised, obj what
\* _grid_search_objective returned or raised
grid_body(m, thresholds, cands, c, best, num, e, obj) ==
    IF e # NoExc
    THEN [exc |-> e, params |-> <<None, None>>, max_obj |-> 0,
          ill |-> best.ill]
    ELSE IF absorbed(obj.exc)
    THEN grid_loop(m, thresholds, cands, c + 1, best, num)
    ELSE IF obj.exc # NoExc
    THEN [exc |-> obj.exc, params |-> <<None, None>>, max_obj |-> 0,
          ill |-> best.ill]
    ELSE grid_loop(m, thresholds, cands, c + 1,
                   IF improves(obj.value, best.max_obj)
                   THEN [params |-> cands[c], max_obj |-> obj.value,
                         ill |-> best.ill \/ obj.ill]
                   ELSE [best EXCEPT !.ill = @ \/ obj.ill], num)

\* delay_grid is a sequence of delays; <<None>> is the grid [delay] of a
\* search whose first phase found no delay: self.endog[:-delay] raises
select_hyperparameters_grid(m, thresholds, delay_grid, num) ==
    IF \E d \in 1..Len(delay_grid) : delay_grid[d] = None
    THEN [exc |-> TypeError, params |-> <<None, None>>, max_obj |-> 0,
          ill |-> FALSE]
    ELSE grid_loop(m, thresholds, candidates(num.grid, delay_grid, 1), 1,
                   [params |-> <<None, None>>, max_obj |-> 0, ill |-> FALSE],
                   num)

(***************************************************************************)
(* SETAR.select_hyperparameters: the refinement loop of one threshold      *)
(* index i (the while True of the for loop's body)                         *)
(***************************************************************************)
\* if iteration > maxiter
cap_reached(iteration) == iteration > maxiter

\* for j in range(i): proposed[j] = params[1]
\* thresholds[:j] + thresholds[j+1:]
others(thresholds, j) ==
    [q \in 1..(Len(thresholds) - 1) |->
        IF q <= j THEN thresholds[q] ELSE thresholds[q + 1]]

\* for j in range(i): proposed[j] = params[1]; ill as in grid_loop
RECURSIVE sweep(_, _, _, _, _, _, _, _)
RECURSIVE sweep_body(_, _, _, _, _, _, _, _)
sweep(m, delay, thresholds, proposed, j, i, num, ill) ==
    IF j >= i THEN [exc |-> NoExc, proposed |-> proposed, ill |-> ill]
    ELSE sweep_body(m, delay, thresholds, proposed, j, i, num,
                    [select_hyperparameters_grid(
                         m, others(thresholds, j), <<delay>>, num)
                     EXCEPT !.ill = @ \/ ill])

\* g is what the grid search of position j returned or raised
sweep_body(m, delay, thresholds, proposed, j, i, num, g) ==
    IF g.exc # NoExc
    THEN [exc |-> g.exc, proposed |-> proposed, ill |-> g.ill]
    ELSE sweep(m, delay, thresholds,
               [proposed EXCEPT ![j + 1] = g.params[2]], j + 1, i, num, g.ill)

\* while True: iteration += 1, the sweep, the two tests, the adoption
RECURSIVE refine(_, _, _, _, _, _, _, _)
RECURSIVE refine_body(_, _, _, _, _, _, _)
refine(m, delay, thresholds, proposed, iteration, i, num, ill) ==
    refine_body(m, delay, thresholds, iteration + 1, i, num,
                sweep(m, delay, thresholds, proposed, 0, i, num, ill))

\* s is the outcome of sweep number it
refine_body(m, delay, thresholds, it, i, num, s) ==
    IF s.exc # NoExc
    THEN [exc |-> s.exc, thresholds |-> thresholds, iteration |-> it,
          warned |-> FALSE, ill |-> s.ill]
    ELSE IF s.proposed = thresholds
    THEN [exc |-> NoExc, thresholds |-> thresholds, iteration |-> it,
          warned |-> FALSE, ill |-> s.ill]
    ELSE IF cap_reached(it)
    THEN [exc |-> NoExc, thresholds |-> thresholds, iteration |-> it,
          warned |-> TRUE, ill |-> s.ill]
    ELSE refine(m, delay, s.proposed, s.proposed, it, i, num, s.ill)

(***************************************************************************)
(* The state machine: one SETAR object, the calls of fit() and of          *)
(* select_hyperparameters() on it, and the steps of the search.            *)
(***************************************************************************)
VARIABLES
    legacy,      \* the interpreter (see SETAR_init)
    args,        \* the constructor's arguments
    self,        \* the object's attributes, or the exception of __init__
    pc,          \* where the call stands: idle, seed, iseed, refine, build
    caller,      \* who runs the search: fit, or a direct call
    delay,       \* select_hyperparameters: local delay
    thresholds,  \* select_hyperparameters: local thresholds (a list)
    i,           \* select_hyperparameters: index of the for loop
    objvals,     \* the values the objective may take, by number of thresholds
    memo,        \* objective values of index i that are already evaluated
    sweeps,      \* iterations of the last refinement loop that ended
    warned,      \* the last refinement loop printed the iteration warning
    swept,       \* sweeps run so far by the search in progress
    gridlog,     \* the grid search of the last seeding step
    result,      \* what the last select_hyperparameters call returned
    raised,      \* the exception the last call raised (NoExc: it returned)
    origin,      \* where it was raised
    fits,        \* fit() calls that ended
    directs,     \* direct select_hyperparameters() calls
    searches,    \* select_hyperparameters calls made by fit()
    call,        \* a direct build_datasets call: its arguments
    built        \* and its result

vars == <<legacy, args, self, pc, caller, delay, thresholds, i, objvals, memo,
          sweeps, warned, swept, gridlog, result, raised, origin, fits,
          directs, searches, call, built>>

NoLog == [ran |-> FALSE, exc |-> NoExc, valid |-> 0, first_max |-> <<None, None>>,
          top |-> 0, params |-> <<None, None>>, max_obj |-> 0]
NoResult == [returned |-> FALSE, delay |-> None, thresholds |-> << >>]
NoCall == [delay |-> None, thresholds |-> << >>, order |-> 0]
NoBuilt == [exc |-> NoExc, regime |-> -1, indicators |-> << >>,
            endog |-> << >>, exog |-> << >>]

(***************************************************************************)
(* Inputs.                                                                 *)
(***************************************************************************)
SeriesA == <<-2, 0, 5, -1, 0, 3, 1>>
SeriesB == <<4, 2, 5, 1, 6, 3, 7, 4>>
SeriesC == <<1, 3, 1, 2, 3, 2, 1, 3>>
SeriesD == <<11, 3, 17, 8, 20, 1, 14, 6, 19, 10, 2, 16, 5, 21, 9, 13, 4, 18, 7,
            15, 12>>
ArOrders == 1..3
\* min_regime_frac: dyadic fractions <<numerator, denominator>>
Fracs == {<<1, 8>>, <<1, 4>>, <<1, 2>>}
DefaultGridSize == 100
CoarseGridSize == 6

\* models left to search their hyperparameters
SearchInputs ==
    [endog : {SeriesA, SeriesB, SeriesC}, order : 2..MaxOrder,
     ar_order : ArOrders, delay : {None}, has_thresholds : {FALSE},
     thresholds : {<< >>}, min_regime_frac : Fracs,
     max_delay : {None, 1, 2, 3}, threshold_grid_size : {DefaultGridSize, 2}]

\* models given both hyperparameters, for direct calls of the search
GivenThresholds == <<2, 3, 5, 6, 7>>
DirectInputs ==
    {[endog |-> e, order |-> o, ar_order |-> p, delay |-> 1,
      has_thresholds |-> TRUE, thresholds |-> SubSeq(GivenThresholds, 1, o - 1),
      min_regime_frac |-> <<1, 8>>, max_delay |-> None,
      threshold_grid_size |-> DefaultGridSize] :
        e \in {SeriesA, SeriesB}, o \in 2..MaxOrder, p \in 1..2}

\* every way of giving or leaving out delay, thresholds and max_delay
ThresholdArgs == {<<FALSE, << >> >>, <<TRUE, <<3>> >>, <<TRUE, <<5, 3>> >>,
                  <<TRUE, <<2, 3, 5>> >>}
ConstructionInputs ==
    {[endog |-> SeriesC, order |-> o, ar_order |-> p, delay |-> d,
      has_thresholds |-> t[1], thresholds |-> t[2],
      min_regime_frac |-> <<1, 8>>, max_delay |-> md,
      threshold_grid_size |-> DefaultGridSize] :
        o \in 2..MaxOrder, p \in ArOrders, d \in {None} \cup 0..4,
        t \in ThresholdArgs, md \in {None} \cup 1..4}

\* the number of thresholds of a candidate
Levels == 1..(MaxOrder - 1)
\* the objective may take any value at any candidate
AnyValue == [n \in Levels |-> 0..MaxObj]

InitWith(l, a, vals) ==
    /\ legacy = l
    /\ args = a
    /\ self = SETAR_init(l, a)
    /\ pc = "idle"
    /\ caller = "none"
    /\ delay = None
    /\ thresholds = << >>
    /\ i = 0
    /\ objvals = vals
    /\ memo = << >>
    /\ sweeps = 0
    /\ warned = FALSE
    /\ swept = 0
    /\ gridlog = NoLog
    /\ result = NoResult
    /\ raised = NoExc
    /\ origin = "none"
    /\ fits = 0
    /\ directs = 0
    /\ searches = 0
    /\ call = NoCall
    /\ built = NoBuilt

Init ==
    \E l \in BOOLEAN :
        \E a \in SearchInputs \cup DirectInputs \cup ConstructionInputs :
            InitWith(l, a, AnyValue)

\* direct build_datasets calls: every series over 0..MaxVal
PartitionInputs ==
    [endog : [1..SeriesLen -> 0..MaxVal], order : {2}, ar_order : 1..2,
     delay : {1}, has_thresholds : {TRUE}, thresholds : {<<1>>},
     min_regime_frac : {<<1, 4>>, <<1, 2>>}, max_delay : {None},
     threshold_grid_size : {DefaultGridSize}]

\* sorted thresholds for 2 and 3 regimes
ThresholdCalls ==
    {np_sort(t) : t \in UNION {[1..n -> 0..MaxVal] : n \in 1..2}}

InitPartition == \E a \in PartitionInputs : InitWith(TRUE, a, AnyValue)

\* models of three and four regimes on a series whose coarse grid holds
\* five thresholds (three for the larger fraction), every regime of every
\* candidate holding independent rows; the objective is positive at every
\* candidate
RefinementValues == [n \in Levels |-> 1..(MaxObj + 1)]
RefinementInputs ==
    [endog : {SeriesD}, order : {3, 4}, ar_order : {2}, delay : {None},
     has_thresholds : {FALSE}, thresholds : {<< >>},
     min_regime_frac : {<<1, 8>>, <<1, 4>>}, max_delay : {None},
     threshold_grid_size : {CoarseGridSize}]
InitRefinement ==
    \E a \in RefinementInputs : InitWith(TRUE, a, RefinementValues)

(***************************************************************************)
(* SETAR.fit                                                               *)
(***************************************************************************)
\* self.thresholds is None: never, __init__ stores np.sort(thresholds)
thresholds_is_None(m) == FALSE

\* if self.delay is None or self.thresholds is None
needs_search(m) == m.delay = None \/ thresholds_is_None(m)

\* XX = np.linalg.inv(exog.T.dot(exog)): a lag that is zero in every row
\* makes X'X exactly singular
baseline_exc(m) ==
    IF \E c \in 1..(m.ar_order + 1) :
           \A r \in 0..(nobs(m.endog, m.ar_order) - 1) :
               exog_row(m.endog, m.ar_order, r)[c] = 0
    THEN LinAlgError ELSE NoExc

\* X'X is singular: the rows of exog do not span its columns
baseline_singular(m) ==
    ~full_rank({exog_row(m.endog, m.ar_order, r) :
                   r \in 0..(nobs(m.endog, m.ar_order) - 1)},
               m.ar_order + 1)

\* the inversion of a singular matrix raises or returns (see
\* _grid_search_objective)
may_raise(ill) == IF ill THEN BOOLEAN ELSE {FALSE}

\* the call ends: with exception e raised at o, or (NoExc) with its value
EndCall(c, e, o) ==
    /\ raised' = e
    /\ origin' = o
    /\ fits' = IF c = "fit" THEN fits + 1 ELSE fits
    /\ pc' = "idle"

ResetLocals ==
    /\ delay' = None
    /\ thresholds' = << >>
    /\ i' = 0
    /\ memo' = << >>

\* return delay, np.sort(thresholds); fit() assigns the pair to self.delay,
\* self.thresholds
Return(d, th) ==
    IF sort_exc(self.legacy, th) # NoExc
    THEN /\ EndCall(caller, sort_exc(self.legacy, th), "search")
         /\ UNCHANGED <<self, result>>
    ELSE /\ result' = [returned |-> TRUE, delay |-> d,
                       thresholds |-> np_sort(th)]
         /\ IF caller = "fit"
            THEN /\ self' = [self EXCEPT !.delay = d,
                                         !.thresholds = np_sort(th),
                                         !.thresholds_0d = FALSE]
                 /\ pc' = "build"
                 /\ UNCHANGED <<raised, origin, fits>>
            ELSE /\ EndCall(caller, NoExc, "none")
                 /\ UNCHANGED self

\* select_hyperparameters() starts: the cached baseline regression
Search(c) ==
    /\ caller' = c
    /\ swept' = 0
    /\ sweeps' = 0
    /\ warned' = FALSE
    /\ gridlog' = NoLog
    /\ result' = NoResult
    /\ \E raises \in may_raise(baseline_singular(self)) :
          IF baseline_exc(self) # NoExc \/ raises
          THEN EndCall(c, LinAlgError, "baseline")
          ELSE /\ pc' = "seed"
               /\ UNCHANGED <<raised, origin, fits>>

FitCall ==
    /\ pc = "idle"
    /\ self.exc = NoExc
    /\ fits < MaxFits
    /\ directs = 0
    /\ IF needs_search(self)
       THEN /\ searches' = searches + 1
            /\ Search("fit")
       ELSE /\ caller' = "fit"
            /\ pc' = "build"
            /\ UNCHANGED <<searches, swept, sweeps, warned, gridlog, result,
                           raised, origin, fits>>
    /\ UNCHANGED <<legacy, args, self, delay, thresholds, i, objvals, memo,
                   directs, call, built>>

\* a call of select_hyperparameters() from outside fit(); an object is
\* either fitted or searched directly
SelectCall ==
    /\ pc = "idle"
    /\ self.exc = NoExc
    /\ directs < MaxDirect
    /\ fits = 0
    /\ directs' = directs + 1
    /\ Search("direct")
    /\ UNCHANGED <<legacy, args, self, delay, thresholds, i, objvals, memo,
                   searches, call, built>>

\* endog, exog = self.build_datasets(self.delay, self.thresholds)
\* return OLS(endog, exog).fit()
FitBuild ==
    /\ pc = "build"
    /\ IF self.delay # None /\ self.thresholds_0d
       THEN EndCall("fit", ValueError, "build")  \* searchsorted on a 0-d array
       ELSE EndCall("fit", build_datasets(self, self.delay, self.thresholds,
                                          self.order).exc, "build")
    /\ ResetLocals
    /\ UNCHANGED <<legacy, args, self, caller, objvals, sweeps, warned, swept,
                   gridlog, result, directs, searches, call, built>>

(***************************************************************************)
(* SETAR.select_hyperparameters, as the steps a call takes through it      *)
(***************************************************************************)
Elems(s) == {s[j] : j \in 1..Len(s)}

\* the candidates the first grid search evaluates
SeedKeys(m) ==
    {<<c[1], <<c[2]>> >> :
        c \in Elems(candidates(threshold_grids(m, default_delay_grid(m), 1),
                               default_delay_grid(m), 1))}

\* the candidates the grid search that seeds the next threshold evaluates
ISeedKeys(m, d, th) ==
    IF d = None THEN {}
    ELSE {<<d, np_sort(<<t>> \o th)>> : t \in Elems(threshold_grid(m, d))}

\* the candidates any sweep over n thresholds can evaluate
StageKeys(m, d, n) ==
    IF d = None THEN {}
    ELSE {<<d, np_sort(t)>> :
             t \in [1..n -> Elems(threshold_grid(m, d)) \cup {None}]}

\* the outcome of every candidate of one grid search, in loop order
outcomes(m, th, delay_grid, num) ==
    LET cands == candidates(num.grid, delay_grid, 1)
    IN  [c \in 1..Len(cands) |->
            [delay |-> cands[c][1], threshold |-> cands[c][2]] @@
            grid_search_objective(cands[c][1],
                                  np_sort(<<cands[c][2]>> \o th), num)]

\* the candidates of maximal objective among those that have one
maximal(outs) ==
    {c \in 1..Len(outs) :
        /\ outs[c].exc = NoExc
        /\ \A d \in 1..Len(outs) :
              outs[d].exc = NoExc => outs[d].value <= outs[c].value}

\* the first index of a set of loop indices (0: the set is empty)
first_of(S) == IF S = {} THEN 0 ELSE CHOOSE c \in S : \A d \in S : c <= d

\* the record of a grid search whose first maximal candidate is number c
\* (0: none): the number of candidates that did not raise
\* InvalidRegimeError, that first candidate with its objective (top), and
\* what the search returned
grid_record(outs, c, g) ==
    [ran |-> TRUE, exc |-> g.exc,
     valid |-> Cardinality({d \in 1..Len(outs) :
                               outs[d].exc # InvalidRegimeError}),
     first_max |-> IF c = 0 THEN <<None, None>>
                   ELSE <<outs[c].delay, outs[c].threshold>>,
     top |-> IF c = 0 THEN 0 ELSE outs[c].value,
     params |-> g.params, max_obj |-> g.max_obj]

grid_log_of(outs, g) == grid_record(outs, first_of(maximal(outs)), g)

grid_log(m, th, delay_grid, num, g) ==
    IF None \in Elems(delay_grid) THEN [NoLog EXCEPT !.ran = TRUE, !.exc = g.exc]
    ELSE grid_log_of(outcomes(m, th, delay_grid, num), g)

\* the record of a grid search that np.linalg.inv interrupted
Interrupted == [NoLog EXCEPT !.ran = TRUE, !.exc = LinAlgError]

\* where an exception of the search comes from: "candidate" is the
\* inversion of a matrix with a zero row, "singular" that of another
\* singular matrix, "search" is select_hyperparameters itself
raise_origin(raises, exc) ==
    IF raises THEN "singular"
    ELSE IF exc = LinAlgError THEN "candidate"
    ELSE "search"

\* for i in range(2, self.order): the step after the seeding of index n
\* is the refinement of the n thresholds found so far
after_seed_mut(n, order) == IF n + 1 < order THEN "iseed" ELSE "refine"
after_seed(n, order) == "refine"

\* thresholds = []; params, min_obj = self._select_hyperparameters_grid(...)
\* delay = params[0]; thresholds.append(params[1])
Seed ==
    /\ pc = "seed"
    /\ \E cls \in {prepared(self, SeedKeys(self))} :
       \E tab \in {table(cls, threshold_grids(self, default_delay_grid(self),
                                              1))} :
       \E value \in [valued(cls) -> objvals[1]] :
       \E num \in {[tab EXCEPT !.value = value]} :
         \E g \in {select_hyperparameters_grid(
                       self, << >>, default_delay_grid(self), num)} :
           \E raises \in may_raise(g.ill) :
             /\ gridlog' = IF raises THEN Interrupted
                           ELSE grid_log(self, << >>,
                                         default_delay_grid(self), num, g)
             /\ IF raises \/ g.exc # NoExc
                THEN /\ EndCall(caller, IF raises THEN LinAlgError ELSE g.exc,
                                raise_origin(raises, g.exc))
                     /\ ResetLocals
                     /\ UNCHANGED <<self, result>>
                ELSE /\ delay' = g.params[1]
                     /\ thresholds' = <<g.params[2]>>
                     /\ memo' = << >>
                     /\ IF 2 < self.order
                        THEN /\ i' = 2
                             /\ pc' = "iseed"
                             /\ UNCHANGED <<self, result, raised, origin, fits>>
                        ELSE /\ i' = i
                             /\ Return(g.params[1], <<g.params[2]>>)
    /\ UNCHANGED <<legacy, args, caller, objvals, sweeps, warned, swept,
                   directs, searches, call, built>>

\* params, min_obj = self._select_hyperparameters_grid(
\*     thresholds, threshold_grid_size, XX, resids, delay_grid=[delay])
\* thresholds.append(params[1])
IncrementalSeed ==
    /\ pc = "iseed"
    /\ \E cls \in {prepared(self, ISeedKeys(self, delay, thresholds))} :
       \E tab \in {table(cls, threshold_grids(self, <<delay>>, 1))} :
       \E value \in [valued(cls) -> objvals[i]] :
       \E num \in {[tab EXCEPT !.value = value]} :
         \E g \in {select_hyperparameters_grid(
                       self, thresholds, <<delay>>, num)} :
           \E raises \in may_raise(g.ill) :
             /\ gridlog' = IF raises THEN Interrupted
                           ELSE grid_log(self, thresholds, <<delay>>, num, g)
             /\ IF raises \/ g.exc # NoExc
                THEN /\ EndCall(caller, IF raises THEN LinAlgError ELSE g.exc,
                                raise_origin(raises, g.exc))
                     /\ ResetLocals
                ELSE /\ thresholds' = Append(thresholds, g.params[2])
                     /\ memo' = value
                     /\ pc' = after_seed(i, self.order)
                     /\ UNCHANGED <<delay, i, raised, origin, fits>>
    /\ UNCHANGED <<legacy, args, self, caller, objvals, sweeps, warned, swept,
                   result, directs, searches, call, built>>

\* the while True loop of index i, then the next index or the return
Refine ==
    /\ pc = "refine"
    /\ \E cls \in {prepared(self, StageKeys(self, delay, i))} :
       \E tab \in {table(cls, threshold_grids(self, <<delay>>, 1))} :
       \E rest \in [valued(cls) \ DOMAIN memo -> objvals[i]] :
         \E r \in {refine(self, delay, thresholds, thresholds, 0, i,
                          [tab EXCEPT !.value = memo @@ rest], FALSE)} :
           \E raises \in may_raise(r.ill) :
             IF raises \/ r.exc # NoExc
             THEN /\ EndCall(caller, IF raises THEN LinAlgError ELSE r.exc,
                             raise_origin(raises, r.exc))
                  /\ ResetLocals
                  /\ UNCHANGED <<self, result, sweeps, warned, swept>>
             ELSE /\ sweeps' = r.iteration
                  /\ warned' = r.warned
                  /\ swept' = swept + r.iteration
                  /\ thresholds' = r.thresholds
                  /\ memo' = << >>
                  /\ delay' = delay
                  /\ IF i + 1 < self.order
                     THEN /\ i' = i + 1
                          /\ pc' = "iseed"
                          /\ UNCHANGED <<self, result, raised, origin, fits>>
                     ELSE /\ i' = i
                          /\ Return(delay, r.thresholds)
    /\ UNCHANGED <<legacy, args, caller, objvals, gridlog, directs, searches,
                   call, built>>

(***************************************************************************)
(* A direct call of build_datasets on a constructed model.                 *)
(***************************************************************************)
Partition ==
    /\ pc = "idle"
    /\ self.exc = NoExc
    /\ \E d \in 1..self.ar_order : \E th \in ThresholdCalls :
         /\ call' = [delay |-> d, thresholds |-> th, order |-> Len(th) + 1]
         /\ built' = build_datasets(self, d, th, Len(th) + 1)
    /\ UNCHANGED <<legacy, args, self, pc, caller, delay, thresholds, i,
                   objvals, memo, sweeps, warned, swept, gridlog, result,
                   raised, origin, fits, directs, searches>>

Next ==
    \/ FitCall
    \/ SelectCall
    \/ Seed
    \/ IncrementalSeed
    \/ Refine
    \/ FitBuild

Spec == Init /\ [][Next]_vars

NextPartition == Partition

SpecPartition == InitPartition /\ [][NextPartition]_vars

SpecRefinement == InitRefinement /\ [][Next]_vars

(***************************************************************************)
(* Properties.  The regimes of a call are restated here from the intervals *)
(* the thresholds cut, without the bucket search of build_datasets.        *)
(***************************************************************************)
\* a direct build_datasets call has been made
Called == call.order # 0

\* the threshold variable of the call, one value per row
CallVar ==
    [t \in 1..nobs(self.endog, self.ar_order) |->
        self.endog[self.ar_order + t - call.delay]]

\* v lies in regime r: above threshold r (if any), not above threshold r + 1
InInterval(v, th, r) ==
    /\ r = 0 \/ th[r] < v
    /\ r = Len(th) \/ v <= th[r + 1]

RegimeRows(r) ==
    {t \in DOMAIN CallVar : InInterval(CallVar[t], call.thresholds, r)}

\* ceil(min_regime_frac * nobs): the least k with k >= min_regime_frac * nobs
MinRows ==
    LET n == nobs(self.endog, self.ar_order)
        f == self.min_regime_frac
    IN  CHOOSE k \in 0..n :
            /\ k * f[2] >= f[1] * n
            /\ \A j \in 0..(k - 1) : j * f[2] < f[1] * n

SmallRegimes ==
    {r \in 0..(call.order - 1) : Cardinality(RegimeRows(r)) < MinRows}

\* C1: build_datasets raises InvalidRegimeError if and only if some regime in
\* 0..order-1 holds strictly fewer than ceil(min_regime_frac * nobs) rows;
\* when no regime does, it raises nothing and returns the response (the
\* series after the first ar_order values) and a design of nobs rows.
C1_InvalidRegimeIffTooFew ==
    Called =>
        /\ built.exc = InvalidRegimeError <=> SmallRegimes # {}
        /\ SmallRegimes = {} =>
              /\ built.exc = NoExc
              /\ built.endog = SubSeq(self.endog, self.ar_order + 1,
                                      Len(self.endog))
              /\ Len(built.exog) = nobs(self.endog, self.ar_order)

\* C1, witness: a call is rejected for a regime that is one row short of a
\* minimum of at least two rows.
C1_Witness ==
    /\ Called
    /\ built.exc = InvalidRegimeError
    /\ MinRows >= 2
    /\ \E r \in 0..(call.order - 1) : Cardinality(RegimeRows(r)) = MinRows - 1

\* C7: in the design build_datasets returns, every row carries its lagged
\* regressors in exactly one regime block, the block of the regime whose
\* interval holds the row's threshold variable, and zeros in all others.
C7_ExactlyOneRegime ==
    (Called /\ built.exc = NoExc) =>
        /\ DOMAIN built.exog = DOMAIN CallVar
        /\ \A t \in DOMAIN built.exog :
              \E r \in 0..(call.order - 1) :
                  /\ t \in RegimeRows(r)
                  /\ built.exog[t][r + 1] =
                         exog_row(self.endog, self.ar_order, t - 1)
                  /\ \A q \in 0..(call.order - 1) :
                        q # r => /\ t \notin RegimeRows(q)
                                 /\ built.exog[t][q + 1] =
                                        zero_row(self.ar_order)

\* C7, witness: a design of three regimes is returned, each regime holding
\* a row.
C7_Witness ==
    /\ Called
    /\ built.exc = NoExc
    /\ call.order = 3
    /\ \A r \in 0..2 : \E t \in DOMAIN built.exog :
          built.exog[t][r + 1] = exog_row(self.endog, self.ar_order, t - 1)

\* C10 as stated: no refinement starts before all order - 1 thresholds are
\* seeded, and no threshold is seeded after a refinement sweep has run.
C10_SeedsBeforeSweeps ==
    /\ pc = "refine" => Len(thresholds) = self.order - 1
    /\ pc = "iseed" => swept = 0

\* C10, amended: the seed phase comes first; then each threshold index
\* i = 2..order-1 is seeded and at once refined together with the thresholds
\* found so far, before the next index is seeded.  Only for order <= 3 are
\* all thresholds seeded before the first sweep.
C10_SeedThenRefinePerIndex ==
    /\ pc \in {"iseed", "refine"} =>
          /\ i \in 2..(self.order - 1)
          /\ swept >= i - 2
    /\ pc = "iseed" => Len(thresholds) = i - 1
    /\ pc = "refine" => Len(thresholds) = i
    /\ self.order <= 3 => C10_SeedsBeforeSweeps

\* C10, witness: the third threshold is about to be seeded after the
\* refinement of the first two has run its sweeps.
C10_Witness ==
    /\ pc = "iseed"
    /\ i = 3
    /\ Len(thresholds) = 2
    /\ swept >= 1

\* C2: the pair select_hyperparameters returns never raises
\* InvalidRegimeError when the series is partitioned with it at full order.
C2_AcceptedNeverInvalid ==
    result.returned =>
        build_datasets(self, result.delay, result.thresholds,
                       self.order).exc # InvalidRegimeError

\* C3: no failure of a single candidate's objective evaluation ends the
\* call that runs the search.
C3_CandidateFailuresAbsorbed == origin # "candidate"

\* C4: for a configuration with max_delay <= ar_order, the delay that
\* select_hyperparameters returns is an integer in 1..ar_order.
C4_DelayInRange ==
    (result.returned /\ self.max_delay <= self.ar_order) =>
        result.delay \in 1..self.ar_order

\* C5: no refinement loop performs more than maxiter sweeps.
C5_AtMostMaxiterSweeps == sweeps <= maxiter

\* C6: over the fit() calls on one model the search runs at most once, and
\* a model given both delay and thresholds never searches nor changes them.
C6_SearchAtMostOnce ==
    /\ searches <= 1
    /\ (self.exc = NoExc /\ args.delay # None /\ args.has_thresholds) =>
          /\ searches = 0
          /\ self.delay = args.delay
          /\ self.thresholds = np_sort(args.thresholds)

\* the arguments are a configuration error as C8 lists them
ConfigurationError(a) ==
    \/ a.delay # None /\ (a.delay < 1 \/ a.delay > a.ar_order)
    \/ a.delay = None /\ a.max_delay # None /\ a.max_delay > a.ar_order
    \/ a.has_thresholds /\ Len(a.thresholds) # a.order - 1

\* C8: construction raises ValueError exactly for a configuration error,
\* and otherwise succeeds, keeping the supplied values and sorting the
\* thresholds.
C8_ConstructionValidates ==
    /\ ConfigurationError(args) <=> self.exc = ValueError
    /\ ~ConfigurationError(args) =>
          /\ self.exc = NoExc
          /\ self.delay = args.delay
          /\ self.order = args.order
          /\ self.ar_order = args.ar_order
          /\ args.has_thresholds => self.thresholds = np_sort(args.thresholds)

\* C9: a grid search that finds a candidate not raising InvalidRegimeError
\* returns the first candidate of maximal objective with that objective.
C9_FirstMaximalCandidate ==
    (gridlog.ran /\ gridlog.exc = NoExc /\ gridlog.valid >= 1) =>
        /\ gridlog.params = gridlog.first_max
        /\ gridlog.max_obj = gridlog.top

=============================================================================
